---- MODULE Spec2Model ----
(***************************************************************************)
(* The Universal Machine of hnguye18/um: the register file, the segmented  *)
(* memory with its free list, and the fetch-decode-execute loop.           *)
(*                                                                         *)
(* A 32-bit word is the pair <<hi, lo>> of its two 16-bit halves, so that  *)
(* every intermediate value stays inside the integers TLC computes with.   *)
(* The segment table holds pointers into a heap of arrays, so that sharing *)
(* of storage between two ids is something a state can show.               *)
(*                                                                         *)
(* The containers are Hanson's Seq and the course's UArray; an index out   *)
(* of range, a negative length and a NULL array are checked runtime errors *)
(* of those interfaces: the process aborts, like a failed assert.          *)
(***************************************************************************)
EXTENDS Integers, Sequences, FiniteSets, TLC

(* ------------------------------ bounds -------------------------------- *)

\* longest program drawn from the instruction alphabet
MaxProgLen == 3
\* instructions executed before the model stops following a run
MaxSteps == 14
\* the segment table is not followed beyond this many slots
MaxSegs == 11
\* longest segment MAP is followed for
MaxSegLen == 3
\* bytes written to the output before the model stops following a run
MaxOut == 3

(* ------------------------- program constants -------------------------- *)

HINT == 10
NUM_REGISTERS == 8
REGISTER_LEN == 8

CMOV == 0
SLOAD == 1
SSTORE == 2
ADD == 3
MUL == 4
DIV == 5
NAND == 6
HALT == 7
MAP == 8
UNMAP == 9
OUT == 10
OP_IN == 11
LOADP == 12
LV == 13

NULL == 0
EOF == -1

W_SIZE == 32
CHAR_SIZE == 8
CHAR_PER_WORD == 4

(* ------------------------------ words --------------------------------- *)

Half == 256 * 256

Zero == <<0, 0>>
AllOnes == <<65535, 65535>>

\* the word of a natural number below 2^31
FromNat(n) == <<n \div Half, n % Half>>

\* a word below 2^31
IsSmall(w) == w[1] < 32768

\* the natural number of a word below 2^31
U(w) == w[1] * Half + w[2]

\* conversion of a uint32_t to int (two's complement, as gcc does it)
ToInt(w) == IF w[1] < 32768 THEN w[1] * Half + w[2]
            ELSE (w[1] - Half) * Half + w[2]

\* conversion of an int to uint32_t
FromInt(i) == IF i >= 0 THEN FromNat(i)
              ELSE <<(i \div Half) + Half, i % Half>>

\* unsigned comparison a < b of two words
ULt(a, b) == a[1] < b[1] \/ (a[1] = b[1] /\ a[2] < b[2])

\* unsigned comparison w < n of a word with a length (an int >= 0 cast to uint32_t)
ULtN(w, n) == ULt(w, FromNat(n))

Add32(a, b) ==
    LET lo == a[2] + b[2]
    IN  <<(a[1] + b[1] + (lo \div Half)) % Half, lo % Half>>

\* (x * y) mod 2^16 for two halves
MulMod16(x, y) == (((x * (y \div 256)) % Half) * 256 + x * (y % 256)) % Half

\* the full 32-bit product of two halves
MulFull16(x, y) ==
    LET p1 == x * (y \div 256)
        p0 == x * (y % 256)
    IN  Add32(<<p1 \div 256, (p1 % 256) * 256>>, <<p0 \div Half, p0 % Half>>)

Mul32(a, b) ==
    LET cross == (MulMod16(a[1], b[2]) + MulMod16(a[2], b[1])) % Half
    IN  Add32(<<cross, 0>>, MulFull16(a[2], b[2]))

\* unsigned floor division, c # 0
Div32(b, c) ==
    IF ~IsSmall(c) THEN (IF ULt(b, c) THEN Zero ELSE <<0, 1>>)
    ELSE IF IsSmall(b) THEN FromNat(U(b) \div U(c))
    ELSE LET bh == (b[1] \div 2) * Half + ((b[1] % 2) * 32768 + (b[2] \div 2))
             bl == b[2] % 2
             q1 == bh \div U(c)
             r1 == bh % U(c)
             t  == IF r1 >= U(c) - r1 - bl THEN 1 ELSE 0
             q  == FromNat(q1)
         IN  Add32(Add32(q, q), <<0, t>>)

RECURSIVE And16(_, _, _)
And16(x, y, n) ==
    IF n = 0 THEN 0
    ELSE (IF x % 2 = 1 /\ y % 2 = 1 THEN 1 ELSE 0) + 2 * And16(x \div 2, y \div 2, n - 1)

Nand32(a, b) == <<65535 - And16(a[1], b[1], 16), 65535 - And16(a[2], b[2], 16)>>

RECURSIVE Pow2(_)
Pow2(n) == IF n = 0 THEN 1 ELSE 2 * Pow2(n - 1)

\* bits lsb .. lsb+width-1 of a word, as a number (width < 31)
BitsOf(w, lsb, width) ==
    IF lsb >= 16 THEN (w[1] \div Pow2(lsb - 16)) % Pow2(width)
    ELSE IF lsb + width <= 16 THEN (w[2] \div Pow2(lsb)) % Pow2(width)
    ELSE (w[2] \div Pow2(lsb)) + (w[1] % Pow2(lsb + width - 16)) * Pow2(16 - lsb)

\* ((uint64_t)word << shl) >> shr : bits shr-shl .. 63-shl of the word
ShlShr(w, shl, shr) == BitsOf(w, shr - shl, 64 - shr)

(* ------------------------------ state --------------------------------- *)

VARIABLES
    reg,            \* um->reg: the eight registers
    segments,       \* um->mem->segments: the table of segment pointers (slot i+1 is id i)
    free,           \* um->mem->free: the ids available for reuse, low end first
    heap,           \* the arrays allocated with UArray_new, by address
    prog_counter,   \* um_execute's int prog_counter
    seg_zero,       \* um_execute's cached pointer to segment 0
    seg_zero_len,   \* um_execute's cached length of segment 0
    status,         \* "running", "halted" (HALT), "finished" (ran off the end), "aborted"
    stdin,          \* the bytes of standard input not yet read
    stdout,         \* the bytes written to standard output
    steps,          \* instructions executed so far
    last_word,      \* history: the instruction word executed last, <<>> before the first
    stored,         \* history: <<seg, off, val>> for each SSTORE still in effect
    history,        \* history: for the last two instructions executed, latest first,
                    \* the word and the free list it was executed with
    events,         \* history: <<MAP, id>> and <<UNMAP, id>> for each id returned by
                    \* memory_map to the program and each id unmapped, in order
    st_size         \* main's file_info.st_size: the size of the program file in bytes

vars == <<reg, segments, free, heap, prog_counter, seg_zero, seg_zero_len,
          status, stdin, stdout, steps, last_word, stored, history, events, st_size>>

\* one more array than the table has slots: load_program holds the copy and the
\* old segment 0 at the same time
Addr == 1 .. (MaxSegs + 1)

Unallocated == [live |-> FALSE, words |-> <<>>]

EmptyHeap == [a \in Addr |-> Unallocated]

(* ----------------------------- registers ------------------------------ *)

registers_new == [i \in 0 .. (REGISTER_LEN - 1) |-> Zero]

registers_put(r, num_register, value) == [r EXCEPT ![num_register] = value]

registers_get(r, num_register) == r[num_register]

(* ------------------------------ memory -------------------------------- *)

\* a memory is the record [segments, free, heap]

\* UArray_new: a fresh array of the given length at an address not in use
UArray_new(h, length) ==
    LET a == CHOOSE x \in Addr : ~h[x].live /\ \A y \in Addr : ~h[y].live => x <= y
    IN  [heap |-> [h EXCEPT ![a] = [live |-> TRUE, words |-> [i \in 1 .. length |-> Zero]]],
         ptr |-> a]

\* UArray_free
UArray_free(h, ptr) == [h EXCEPT ![ptr] = Unallocated]

\* Seq_get(seq, i) is a checked runtime error unless 0 <= i < Seq_length(seq)
Seq_in_range(seq, i) == i >= 0 /\ i < Len(seq)

Seq_get(seq, i) == seq[i + 1]

Seq_put(seq, i, x) == [seq EXCEPT ![i + 1] = x]

\* mutant of memory_map: the id taken stays on the free list
memory_map_keeps_id(m, length) ==
    LET n == UArray_new(m.heap, length)
    IN  IF Len(m.free) = 0
        THEN [segments |-> Append(m.segments, n.ptr), free |-> m.free,
              heap |-> n.heap, index |-> Len(m.segments)]
        ELSE LET index == Head(m.free)
             IN  [segments |-> Seq_put(m.segments, index, n.ptr), free |-> m.free,
                  heap |-> n.heap, index |-> index]

\* mutant of memory_map: the smallest id of the free list is taken
memory_map_smallest(m, length) ==
    LET n == UArray_new(m.heap, length)
    IN  IF Len(m.free) = 0
        THEN [segments |-> Append(m.segments, n.ptr), free |-> m.free,
              heap |-> n.heap, index |-> Len(m.segments)]
        ELSE LET k == CHOOSE x \in 1 .. Len(m.free) :
                          \A y \in 1 .. Len(m.free) : m.free[x] <= m.free[y]
                 index == m.free[k]
             IN  [segments |-> Seq_put(m.segments, index, n.ptr),
                  free |-> SubSeq(m.free, 1, k - 1) \o SubSeq(m.free, k + 1, Len(m.free)),
                  heap |-> n.heap, index |-> index]

\* memory_map: the memory after mapping, and the id returned
memory_map(m, length) ==
    LET n == UArray_new(m.heap, length)
    IN  IF Len(m.free) = 0
        THEN [segments |-> Append(m.segments, n.ptr), free |-> m.free,
              heap |-> n.heap, index |-> Len(m.segments)]
        ELSE LET index == Head(m.free)
             IN  [segments |-> Seq_put(m.segments, index, n.ptr), free |-> Tail(m.free),
                  heap |-> n.heap, index |-> index]

\* mutant of memory_unmap_ok: without assert(seg_num != 0)
memory_unmap_ok_no_zero_assert(m, seg_num) ==
    /\ Seq_in_range(m.segments, ToInt(seg_num))
    /\ Seq_get(m.segments, ToInt(seg_num)) # NULL

\* the asserts of memory_unmap and the range check of its Seq_get
memory_unmap_ok(m, seg_num) ==
    /\ seg_num # Zero
    /\ Seq_in_range(m.segments, ToInt(seg_num))
    /\ Seq_get(m.segments, ToInt(seg_num)) # NULL

\* mutant of memory_unmap: the slot is not set to NULL
memory_unmap_keeps_slot(m, seg_num) ==
    LET i == ToInt(seg_num)
    IN  [segments |-> m.segments,
         free |-> Append(m.free, i),
         heap |-> UArray_free(m.heap, Seq_get(m.segments, i))]

\* mutant of memory_unmap: the id is added at the low end of the free list
memory_unmap_addlo(m, seg_num) ==
    LET i == ToInt(seg_num)
    IN  [segments |-> Seq_put(m.segments, i, NULL),
         free |-> <<i>> \o m.free,
         heap |-> UArray_free(m.heap, Seq_get(m.segments, i))]

\* mutant of memory_unmap: the last slot of the table is removed when it is unmapped
memory_unmap_shrinks(m, seg_num) ==
    LET i == ToInt(seg_num)
    IN  IF i = Len(m.segments) - 1
        THEN [segments |-> SubSeq(m.segments, 1, i),
              free |-> m.free,
              heap |-> UArray_free(m.heap, Seq_get(m.segments, i))]
        ELSE [segments |-> Seq_put(m.segments, i, NULL),
              free |-> Append(m.free, i),
              heap |-> UArray_free(m.heap, Seq_get(m.segments, i))]

\* mutant of memory_unmap: the id is not added to the free list
memory_unmap_drops_id(m, seg_num) ==
    LET i == ToInt(seg_num)
    IN  [segments |-> Seq_put(m.segments, i, NULL),
         free |-> m.free,
         heap |-> UArray_free(m.heap, Seq_get(m.segments, i))]

memory_unmap(m, seg_num) ==
    LET i == ToInt(seg_num)
    IN  [segments |-> Seq_put(m.segments, i, NULL),
         free |-> Append(m.free, i),
         heap |-> UArray_free(m.heap, Seq_get(m.segments, i))]

\* mutant of memory_put_ok: without the assert on the offset
memory_put_ok_no_offset_assert(m, seg, off) ==
    /\ ULtN(seg, Len(m.segments))
    /\ Seq_get(m.segments, U(seg)) # NULL

\* the asserts of memory_put
memory_put_ok(m, seg, off) ==
    /\ ULtN(seg, Len(m.segments))
    /\ Seq_get(m.segments, U(seg)) # NULL
    /\ ULtN(off, Len(m.heap[Seq_get(m.segments, U(seg))].words))

\* the asserts of memory_get
memory_get_ok(m, seg, off) ==
    /\ ULtN(seg, Len(m.segments))
    /\ Seq_get(m.segments, U(seg)) # NULL
    /\ ULtN(off, Len(m.heap[Seq_get(m.segments, U(seg))].words))

memory_put(m, seg, off, val) ==
    [m.heap EXCEPT ![Seq_get(m.segments, U(seg))].words[U(off) + 1] = val]

\* mutant of memory_get: the offset is ignored
memory_get_first_word(m, seg, off) == m.heap[Seq_get(m.segments, U(seg))].words[1]

memory_get(m, seg, off) == m.heap[Seq_get(m.segments, U(seg))].words[U(off) + 1]

\* memory_new: HINT NULL slots, the ids 0 .. HINT-1 on the free list, then segment 0
memory_new(length) ==
    memory_map([segments |-> [i \in 1 .. HINT |-> NULL],
                free |-> [i \in 1 .. HINT |-> i - 1],
                heap |-> EmptyHeap], length)

\* memory_free: every array of the table is freed, both sequences are emptied
RECURSIVE FreeAll(_, _)
FreeAll(h, segs) ==
    IF segs = <<>> THEN h
    ELSE LET aux == segs[Len(segs)]
         IN  FreeAll(IF aux = NULL THEN h ELSE UArray_free(h, aux), SubSeq(segs, 1, Len(segs) - 1))

memory_free(m) == [segments |-> <<>>, free |-> <<>>, heap |-> FreeAll(m.heap, m.segments)]

mem == [segments |-> segments, free |-> free, heap |-> heap]

(* ------------------------------ programs ------------------------------ *)

\* a standard-format instruction word and a load-value word
Instr(op, a, b, c) == <<op * 4096, a * 64 + b * 8 + c>>
LoadVal(a, v) == <<LV * 4096 + a * 512 + (v \div Half), v % Half>>

\* the instruction alphabet of the short programs; r0 stays 0 in them
Alphabet == {
    LoadVal(1, 1),              \* r1 <- 1
    Instr(MAP, 0, 3, 1),        \* r3 <- id of a new segment of length r1
    Instr(UNMAP, 0, 0, 3),      \* unmap segment r3
    Instr(SSTORE, 3, 0, 1),     \* M[r3, 0] <- r1
    Instr(SLOAD, 2, 3, 0),      \* r2 <- M[r3, 0]
    Instr(LOADP, 0, 3, 0),      \* segment 0 <- copy of segment r3, pc <- 0
    Instr(LOADP, 0, 0, 1),      \* pc <- r1
    Instr(NAND, 1, 0, 0),       \* r1 <- 0xFFFFFFFF
    Instr(CMOV, 3, 1, 1),       \* if r1 # 0 then r3 <- r1
    <<14 * 4096, 0>>            \* no such opcode
}

ShortPrograms == UNION {[1 .. n -> Alphabet] : n \in 0 .. MaxProgLen}

\* a standard-format word with bits set among the unused bits 27-9
Junk(w) == <<w[1] + 2730, w[2] + 85 * 512>>

\* r4 <- the instruction word op a b c, built with LV, MUL and ADD (r5 is scratch)
Build(op, a, b, c) ==
    << LoadVal(4, op * 1048576), LoadVal(5, 256), Instr(MUL, 4, 4, 5),
       LoadVal(5, a * 64 + b * 8 + c), Instr(ADD, 4, 4, 5) >>

\* the end-to-end scenarios of the specification, and longer runs of MAP and UNMAP
Scenarios == {
    \* LV + OUT 'A'
    << LoadVal(0, 65), Instr(OUT, 0, 0, 0), Instr(HALT, 0, 0, 0) >>,
    \* a byte is written, then a value above 255 is not
    << LoadVal(0, 65), Instr(OUT, 0, 0, 0), LoadVal(1, 16), Instr(MUL, 1, 1, 1),
       Instr(OUT, 0, 0, 1) >>,
    \* echo one byte
    << Instr(OP_IN, 0, 0, 0), Instr(OUT, 0, 0, 0), Instr(HALT, 0, 0, 0) >>,
    \* MAP/UNMAP round trip
    << LoadVal(2, 3), LoadVal(4, 42), Instr(MAP, 0, 1, 2), LoadVal(3, 0),
       Instr(SSTORE, 1, 3, 4), Instr(SLOAD, 5, 1, 3), Instr(OUT, 0, 0, 5),
       Instr(UNMAP, 0, 0, 1), Instr(HALT, 0, 0, 0) >>,
    \* LOADP into a segment that holds HALT
    Build(HALT, 0, 0, 0) \o
    << LoadVal(1, 1), Instr(MAP, 0, 6, 1), Instr(SSTORE, 6, 0, 4), Instr(LOADP, 0, 6, 0) >>,
    \* LOADP into a segment that then stores into segment 0
    << LoadVal(1, 1), LoadVal(2, 2), Instr(MAP, 0, 6, 2) >> \o Build(SSTORE, 0, 1, 2) \o
    << Instr(SSTORE, 6, 0, 4), Instr(LOADP, 0, 6, 0) >>,
    \* LOADP into a segment that then stores into the segment it was copied from
    << LoadVal(1, 1), LoadVal(2, 2), Instr(MAP, 0, 6, 2) >> \o Build(SSTORE, 6, 1, 2) \o
    << Instr(SSTORE, 6, 0, 4), Instr(LOADP, 0, 6, 0) >>,
    \* a store, other instructions, then a load of the same word
    << LoadVal(1, 1), LoadVal(2, 2), Instr(MAP, 0, 3, 2), Instr(MAP, 0, 4, 2),
       Instr(SSTORE, 3, 1, 2), Instr(SSTORE, 4, 1, 1), Instr(SSTORE, 3, 0, 1),
       Instr(UNMAP, 0, 0, 4), Instr(MAP, 0, 5, 1), LoadVal(6, 11),
       Instr(LOADP, 0, 0, 6), Instr(SLOAD, 7, 3, 1) >>,
    \* MAP, UNMAP and SSTORE, then LOADP of a mapped segment
    << LoadVal(1, 1), Instr(MAP, 0, 3, 1), Instr(MAP, 0, 4, 1), Instr(UNMAP, 0, 0, 3),
       Instr(SSTORE, 4, 0, 1), Instr(LOADP, 0, 4, 0) >>,
    \* a jump beyond the end of the program
    << LoadVal(1, 5), Instr(LOADP, 0, 0, 1) >>,
    \* LOADP of a mapped segment with r[C] = 0xFFFFFFFF
    << LoadVal(1, 1), Instr(MAP, 0, 3, 1), Instr(NAND, 1, 0, 0), Instr(LOADP, 0, 3, 1) >>,
    \* LOADP of an id never mapped and of an id beyond the table
    << LoadVal(3, 5), Instr(LOADP, 0, 3, 0) >>,
    << LoadVal(3, 200), Instr(LOADP, 0, 3, 0) >>,
    \* UNMAP, SLOAD and SSTORE of an id beyond the table
    << LoadVal(3, 200), Instr(UNMAP, 0, 0, 3) >>,
    << LoadVal(3, 200), Instr(SLOAD, 2, 3, 0) >>,
    << LoadVal(3, 200), Instr(SSTORE, 3, 0, 1) >>,
    \* division, also by zero and with one register for A, B and C
    << LoadVal(1, 7), LoadVal(2, 2), Instr(DIV, 3, 1, 2), Instr(DIV, 1, 1, 1), Instr(DIV, 0, 0, 0) >>,
    \* sums and products that wrap
    << Instr(NAND, 1, 0, 0), Instr(ADD, 2, 1, 1), Instr(MUL, 3, 1, 1), Instr(HALT, 0, 0, 0) >>,
    \* quotients of operands above 2^31
    << Instr(NAND, 1, 0, 0), LoadVal(2, 2), Instr(DIV, 3, 1, 2), Instr(DIV, 4, 3, 1),
       Instr(DIV, 5, 1, 3), LoadVal(6, 3), Instr(DIV, 7, 1, 6), Instr(DIV, 1, 1, 1),
       Instr(DIV, 0, 0, 0) >>,
    \* a chain of sums and products of large operands
    << LoadVal(1, 33554431), Instr(MUL, 2, 1, 1), Instr(ADD, 3, 2, 1), Instr(MUL, 4, 3, 2),
       Instr(NAND, 5, 4, 4), Instr(ADD, 6, 5, 4), Instr(ADD, 7, 6, 1), Instr(MUL, 1, 5, 3) >>,
    \* load values with the top bits of the 25-bit field set
    << LoadVal(7, 33554431), LoadVal(0, 16777216), LoadVal(7, 0) >>,
    \* words with opcode 14 and 15 and other bits set
    << LoadVal(1, 1), <<65535, 65535>> >>,
    << <<14 * 4096 + 291, 17767>> >>,
    \* every standard-format instruction with bits set among bits 27-9
    << LoadVal(1, 1), Junk(Instr(ADD, 2, 1, 1)), Junk(Instr(MAP, 0, 3, 1)),
       Junk(Instr(SSTORE, 3, 0, 2)), Junk(Instr(SLOAD, 4, 3, 0)), Junk(Instr(MUL, 5, 4, 4)),
       Junk(Instr(DIV, 6, 5, 2)), Junk(Instr(NAND, 7, 6, 6)), Junk(Instr(CMOV, 7, 1, 2)),
       Junk(Instr(OUT, 0, 0, 4)), Junk(Instr(OP_IN, 0, 0, 5)), Junk(Instr(UNMAP, 0, 0, 3)),
       Junk(Instr(HALT, 0, 0, 0)) >>,
    << LoadVal(1, 3), Junk(Instr(LOADP, 0, 0, 1)), LoadVal(2, 9), Junk(Instr(HALT, 0, 0, 0)) >>,
    \* EOF sentinel
    << Instr(OP_IN, 0, 0, 0), LoadVal(1, 32), Instr(NAND, 2, 0, 0), Instr(ADD, 3, 0, 1) >>,
    \* three INs on two bytes of input
    << Instr(OP_IN, 0, 0, 1), Instr(OP_IN, 0, 0, 2), Instr(OP_IN, 0, 0, 3) >>,
    \* ten MAPs, the last one with the free list empty, then UNMAP of its id
    [i \in 1 .. 10 |-> Instr(MAP, 0, 1, 0)] \o << Instr(UNMAP, 0, 0, 1) >>,
    \* nine MAPs, UNMAP of ids 3 and 1, then two MAPs
    << Instr(MAP, 0, 1, 0), Instr(MAP, 0, 2, 0), Instr(MAP, 0, 3, 0) >> \o
    [i \in 1 .. 6 |-> Instr(MAP, 0, 4, 0)] \o
    << Instr(UNMAP, 0, 0, 3), Instr(UNMAP, 0, 0, 1), Instr(MAP, 0, 5, 0), Instr(MAP, 0, 6, 0) >>,
    \* eleven MAPs: the free list runs empty and the table grows
    [i \in 1 .. 11 |-> Instr(MAP, 0, 1, 0)],
    \* MAP 1, 2, 3, then UNMAP 3, UNMAP 1, then MAP twice
    << Instr(MAP, 0, 1, 0), Instr(MAP, 0, 2, 0), Instr(MAP, 0, 3, 0),
       Instr(UNMAP, 0, 0, 3), Instr(UNMAP, 0, 0, 1),
       Instr(MAP, 0, 4, 0), Instr(MAP, 0, 5, 0) >>,
    \* a loop that maps and unmaps: the ids come back in free-list order
    << Instr(MAP, 0, 1, 0), Instr(UNMAP, 0, 0, 1), Instr(LOADP, 0, 0, 0) >>,
    \* a loop that maps and sometimes unmaps
    << Instr(MAP, 0, 1, 0), Instr(MAP, 0, 2, 0), Instr(UNMAP, 0, 0, 1), Instr(LOADP, 0, 0, 0) >>
}

Programs == ShortPrograms \cup Scenarios

\* the bytes of a program file: each word as four bytes, the most significant first
FileOf(prog) ==
    [k \in 1 .. CHAR_PER_WORD * Len(prog) |->
        LET w == prog[((k - 1) \div CHAR_PER_WORD) + 1]
            j == (k - 1) % CHAR_PER_WORD
        IN  IF j = 0 THEN w[1] \div 256
            ELSE IF j = 1 THEN w[1] % 256
            ELSE IF j = 2 THEN w[2] \div 256
            ELSE w[2] % 256]

\* files whose size is not a multiple of CHAR_PER_WORD: one to three more bytes
Ragged ==
    {FileOf(prog) \o rest :
        prog \in {<<>>, << LoadVal(0, 65), Instr(OUT, 0, 0, 0) >>},
        rest \in {<<0>>, <<112, 0>>, <<112, 0, 0>>}}

\* the program files the machine is started on
Files == {FileOf(prog) : prog \in Programs} \cup Ragged

\* the standard inputs a program is run with
Inputs(prog) ==
    IF \E i \in 1 .. Len(prog) : prog[i][1] \div 4096 = OP_IN
    THEN {<<>>, <<90, 255>>}
    ELSE {<<>>}

(* --------------------------- construction ----------------------------- *)

\* the word with the CHAR_SIZE bits from bit lsb replaced by c, as construct_word
\* computes it: the bits above, the bits below, and c shifted to its place. (For
\* lsb = 0 the shift that keeps the bits below is by 64 bits, which C leaves
\* undefined; it yields the word or 0, and no bit below lsb is set in either.)
construct_byte(w, c, lsb) ==
    IF lsb >= 16
    THEN <<(w[1] \div Pow2(lsb - 8)) * Pow2(lsb - 8) + c * Pow2(lsb - 16) + (w[1] % Pow2(lsb - 16)),
           w[2]>>
    ELSE <<w[1], (w[2] \div Pow2(lsb + 8)) * Pow2(lsb + 8) + c * Pow2(lsb) + (w[2] % Pow2(lsb))>>

\* construct_word: the next four bytes of the file, the first one the most significant
RECURSIVE construct_loop(_, _, _, _)
construct_loop(fp, pos, c_loop, w) ==
    IF c_loop >= W_SIZE \div CHAR_SIZE THEN w
    ELSE construct_loop(fp, pos, c_loop + 1,
                        construct_byte(w, fp[pos + c_loop + 1],
                                       W_SIZE - (CHAR_SIZE * c_loop) - CHAR_SIZE))

construct_word(fp, index) == construct_loop(fp, CHAR_PER_WORD * index, 0, Zero)

\* populate_seg_zero: size words of the file are put into segment 0 in order
RECURSIVE populate_seg_zero(_, _, _, _)
populate_seg_zero(m, fp, size, index) ==
    IF index >= size THEN m
    ELSE populate_seg_zero([m EXCEPT !.heap = memory_put(m, Zero, FromNat(index),
                                                         construct_word(fp, index))],
                           fp, size, index + 1)

\* main: the number of words is st_size / CHAR_PER_WORD, whatever the remainder
Init ==
    \E fp \in Files :
        LET size == Len(fp) \div CHAR_PER_WORD
            m == populate_seg_zero(memory_new(size), fp, size, 0)
        IN  \E input \in Inputs(m.heap[Seq_get(m.segments, 0)].words) :
            /\ reg = registers_new
            /\ segments = m.segments
            /\ free = m.free
            /\ heap = m.heap
            /\ prog_counter = 0
            /\ seg_zero = Seq_get(m.segments, 0)
            /\ seg_zero_len = Len(m.heap[Seq_get(m.segments, 0)].words)
            /\ status = "running"
            /\ stdin = input
            /\ stdout = <<>>
            /\ steps = 0
            /\ last_word = <<>>
            /\ stored = {}
            /\ history = <<>>
            /\ events = <<>>
            /\ st_size = Len(fp)

(* ------------------------------ decode -------------------------------- *)

\* the word um_execute fetches
word == heap[seg_zero].words[prog_counter + 1]

decode_opcode(w) == ShlShr(w, 32, 60)
\* mutant of decode_ra: the field is read from bits 11-9
decode_ra_bits_11_9(w) == ShlShr(w, 52, 61)

decode_ra(w) == ShlShr(w, 55, 61)
decode_rb(w) == ShlShr(w, 58, 61)
decode_rc(w) == ShlShr(w, 61, 61)
\* the two fields of a load-value word
decode_lv_ra(w) == ShlShr(w, 36, 61)
\* mutant of decode_lv_value: a 24-bit value
decode_lv_value_24_bits(w) == FromNat(ShlShr(w, 40, 40))

decode_lv_value(w) == FromNat(ShlShr(w, 39, 39))

opcode == decode_opcode(word)
ra == decode_ra(word)
rb == decode_rb(word)
rc == decode_rc(word)

(* ------------------------------ handlers ------------------------------ *)

\* mutant of conditional_move: the move is made whatever r[C] holds
conditional_move_always(r, a, b, c) == registers_put(r, a, registers_get(r, b))

conditional_move(r, a, b, c) ==
    IF registers_get(r, c) # Zero THEN registers_put(r, a, registers_get(r, b)) ELSE r

segmented_load(r, m, a, b, c) ==
    registers_put(r, a, memory_get(m, registers_get(r, b), registers_get(r, c)))

segmented_store(r, m, a, b, c) ==
    memory_put(m, registers_get(r, a), registers_get(r, b), registers_get(r, c))

\* mutant of add: the carry out of bit 31 is kept
add_no_wrap(r, a, b, c) ==
    LET x == registers_get(r, b)
        y == registers_get(r, c)
    IN  registers_put(r, a, <<x[1] + y[1] + ((x[2] + y[2]) \div Half), (x[2] + y[2]) % Half>>)

add(r, a, b, c) == registers_put(r, a, Add32(registers_get(r, b), registers_get(r, c)))

multiply(r, a, b, c) == registers_put(r, a, Mul32(registers_get(r, b), registers_get(r, c)))

\* mutant of divide: the dividend is taken as a signed int
divide_signed_dividend(r, a, b, c) ==
    LET x == registers_get(r, b)
        y == registers_get(r, c)
    IN  registers_put(r, a, IF IsSmall(y) THEN FromInt(ToInt(x) \div U(y)) ELSE Div32(x, y))

divide(r, a, b, c) == registers_put(r, a, Div32(registers_get(r, b), registers_get(r, c)))

nand(r, a, b, c) == registers_put(r, a, Nand32(registers_get(r, b), registers_get(r, c)))

\* mutant of map_segment: the id is written to register a
map_segment_writes_ra(r, m, a, b, c) ==
    LET mapped == memory_map(m, ToInt(registers_get(r, c)))
    IN  [reg |-> registers_put(r, a, FromNat(mapped.index)), mem |-> mapped]

\* map_segment: the memory after memory_map and the registers with the id in r[b]
map_segment(r, m, a, b, c) ==
    LET mapped == memory_map(m, ToInt(registers_get(r, c)))
    IN  [reg |-> registers_put(r, b, FromNat(mapped.index)), mem |-> mapped]

unmap_segment(r, m, a, b, c) == memory_unmap(m, registers_get(r, c))

\* fgetc(stdin)
fgetc(in) == IF in = <<>> THEN EOF ELSE Head(in)

\* mutant of input: on EOF the register is set to 0
input_eof_zero(r, in, a, b, c) ==
    LET character == fgetc(in)
    IN  registers_put(r, c, IF character = EOF THEN Zero ELSE FromInt(character))

\* input: on EOF the register is written twice, the second time with (uint32_t)EOF
input(r, in, a, b, c) ==
    LET character == fgetc(in)
        r1 == IF character = EOF THEN registers_put(r, c, AllOnes) ELSE r
    IN  registers_put(r1, c, FromInt(character))

load_value(r, a, val) == registers_put(r, a, val)

\* the range check of load_program's Seq_get and its assert
load_program_ok(r, m, b) ==
    \/ registers_get(r, b) = Zero
    \/ /\ Seq_in_range(m.segments, ToInt(registers_get(r, b)))
       /\ Seq_get(m.segments, ToInt(registers_get(r, b))) # NULL

\* mutant of load_program: the copy loop stops one word early
load_program_short_copy(r, m, a, b, c) ==
    LET rb_val == registers_get(r, b)
    IN  IF rb_val = Zero
        THEN [segments |-> m.segments, heap |-> m.heap, ret |-> registers_get(r, c)]
        ELSE LET to_copy == Seq_get(m.segments, ToInt(rb_val))
                 src == m.heap[to_copy].words
                 n == UArray_new(m.heap, Len(src))
                 copied == [n.heap EXCEPT ![n.ptr].words =
                               [k \in 1 .. Len(src) |-> IF k < Len(src) THEN src[k] ELSE Zero]]
                 old == Seq_get(m.segments, 0)
             IN  [segments |-> Seq_put(m.segments, 0, n.ptr),
                  heap |-> UArray_free(copied, old),
                  ret |-> registers_get(r, c)]

\* mutant of load_program: slot 0 is pointed at the source array, no copy is made
load_program_shallow(r, m, a, b, c) ==
    LET rb_val == registers_get(r, b)
    IN  IF rb_val = Zero
        THEN [segments |-> m.segments, heap |-> m.heap, ret |-> registers_get(r, c)]
        ELSE LET to_copy == Seq_get(m.segments, ToInt(rb_val))
                 old == Seq_get(m.segments, 0)
             IN  [segments |-> Seq_put(m.segments, 0, to_copy),
                  heap |-> UArray_free(m.heap, old),
                  ret |-> registers_get(r, c)]

\* mutant of load_program: segment 0 is copied onto itself when r[B] = 0
load_program_always_copies(r, m, a, b, c) ==
    LET to_copy == Seq_get(m.segments, ToInt(registers_get(r, b)))
        n == UArray_new(m.heap, Len(m.heap[to_copy].words))
        copied == [n.heap EXCEPT ![n.ptr].words = m.heap[to_copy].words]
        old == Seq_get(m.segments, 0)
    IN  [segments |-> Seq_put(m.segments, 0, n.ptr),
         heap |-> UArray_free(copied, old),
         ret |-> registers_get(r, c)]

\* load_program: the memory afterwards and the value returned
load_program(r, m, a, b, c) ==
    LET rb_val == registers_get(r, b)
    IN  IF rb_val = Zero
        THEN [segments |-> m.segments, heap |-> m.heap, ret |-> registers_get(r, c)]
        ELSE LET to_copy == Seq_get(m.segments, ToInt(rb_val))
                 n == UArray_new(m.heap, Len(m.heap[to_copy].words))
                 copied == [n.heap EXCEPT ![n.ptr].words = m.heap[to_copy].words]
                 old == Seq_get(m.segments, 0)
             IN  [segments |-> Seq_put(m.segments, 0, n.ptr),
                  heap |-> UArray_free(copied, old),
                  ret |-> registers_get(r, c)]

(* --------------------------- the execute loop -------------------------- *)

\* Each instruction's action takes the fetched word w as its parameter and reads it
\* through the decoder only, as the handlers receive nothing but the decoded fields.

\* the loop test holds and the fetch is inside segment 0
Fetching ==
    /\ status = "running"
    /\ steps < MaxSteps
    /\ prog_counter < seg_zero_len
    /\ prog_counter >= 0

\* the history after the instruction fetched now
Record == <<[word |-> word, free |-> free]>> \o SubSeq(history, 1, IF history = <<>> THEN 0 ELSE 1)

\* mutant of Advance: the program counter is incremented twice
Advance_twice ==
    /\ prog_counter' = prog_counter + 2
    /\ steps' = steps + 1
    /\ last_word' = word
    /\ history' = Record
    /\ UNCHANGED st_size

\* prog_counter++ at the top of the loop body
Advance ==
    /\ prog_counter' = prog_counter + 1
    /\ steps' = steps + 1
    /\ last_word' = word
    /\ history' = Record
    /\ UNCHANGED st_size

\* an assert or a checked runtime error fails inside a handler
Fatal ==
    /\ status' = "aborted"
    /\ Advance
    /\ UNCHANGED <<reg, segments, free, heap, seg_zero, seg_zero_len, stdin, stdout, stored, events>>

\* a handler that writes registers only
RegisterStep(r) ==
    /\ reg' = r
    /\ Advance
    /\ UNCHANGED <<segments, free, heap, seg_zero, seg_zero_len, status, stdin, stdout, stored, events>>

\* um_free of a halting or finishing machine
Teardown(newStatus) ==
    LET m == memory_free(mem)
    IN  /\ segments' = m.segments
        /\ free' = m.free
        /\ heap' = m.heap
        /\ status' = newStatus
        /\ stored' = {}

ExecCMOV(w) ==
    /\ Fetching /\ decode_opcode(w) = CMOV
    /\ RegisterStep(conditional_move(reg, decode_ra(w), decode_rb(w), decode_rc(w)))

ExecSLOAD(w) ==
    /\ Fetching /\ decode_opcode(w) = SLOAD
    /\ IF memory_get_ok(mem, reg[decode_rb(w)], reg[decode_rc(w)])
       THEN RegisterStep(segmented_load(reg, mem, decode_ra(w), decode_rb(w), decode_rc(w)))
       ELSE Fatal

ExecSSTORE(w) ==
    /\ Fetching /\ decode_opcode(w) = SSTORE
    /\ IF memory_put_ok(mem, reg[decode_ra(w)], reg[decode_rb(w)])
       THEN /\ heap' = segmented_store(reg, mem, decode_ra(w), decode_rb(w), decode_rc(w))
            /\ stored' = {t \in stored : t[1] # U(reg[decode_ra(w)]) \/ t[2] # U(reg[decode_rb(w)])}
                          \cup {<<U(reg[decode_ra(w)]), U(reg[decode_rb(w)]), reg[decode_rc(w)]>>}
            /\ Advance
            /\ UNCHANGED <<reg, segments, free, seg_zero, seg_zero_len, status, stdin, stdout, events>>
       ELSE Fatal

ExecADD(w) ==
    /\ Fetching /\ decode_opcode(w) = ADD
    /\ RegisterStep(add(reg, decode_ra(w), decode_rb(w), decode_rc(w)))

ExecMUL(w) ==
    /\ Fetching /\ decode_opcode(w) = MUL
    /\ RegisterStep(multiply(reg, decode_ra(w), decode_rb(w), decode_rc(w)))

ExecDIV(w) ==
    /\ Fetching /\ decode_opcode(w) = DIV
    /\ IF reg[decode_rc(w)] # Zero
       THEN RegisterStep(divide(reg, decode_ra(w), decode_rb(w), decode_rc(w)))
       ELSE Fatal

ExecNAND(w) ==
    /\ Fetching /\ decode_opcode(w) = NAND
    /\ RegisterStep(nand(reg, decode_ra(w), decode_rb(w), decode_rc(w)))

\* halt: um_free, then exit(EXIT_SUCCESS)
ExecHALT(w) ==
    /\ Fetching /\ decode_opcode(w) = HALT
    /\ Teardown("halted")
    /\ Advance
    /\ UNCHANGED <<reg, seg_zero, seg_zero_len, stdin, stdout, events>>

\* a length that converts to a negative int is a checked runtime error of UArray_new;
\* lengths above MaxSegLen and tables beyond MaxSegs are not followed
ExecMAP(w) ==
    /\ Fetching /\ decode_opcode(w) = MAP
    /\ IF ToInt(reg[decode_rc(w)]) < 0 THEN Fatal
       ELSE /\ ToInt(reg[decode_rc(w)]) <= MaxSegLen
            /\ Len(free) > 0 \/ Len(segments) < MaxSegs
            /\ LET res == map_segment(reg, mem, decode_ra(w), decode_rb(w), decode_rc(w))
               IN  /\ reg' = res.reg
                   /\ segments' = res.mem.segments
                   /\ free' = res.mem.free
                   /\ heap' = res.mem.heap
                   /\ events' = Append(events, <<MAP, res.mem.index>>)
            /\ Advance
            /\ UNCHANGED <<seg_zero, seg_zero_len, status, stdin, stdout, stored>>

ExecUNMAP(w) ==
    /\ Fetching /\ decode_opcode(w) = UNMAP
    /\ IF memory_unmap_ok(mem, reg[decode_rc(w)])
       THEN /\ LET m == unmap_segment(reg, mem, decode_ra(w), decode_rb(w), decode_rc(w))
               IN  /\ segments' = m.segments
                   /\ free' = m.free
                   /\ heap' = m.heap
            /\ stored' = {t \in stored : t[1] # U(reg[decode_rc(w)])}
            /\ events' = Append(events, <<UNMAP, U(reg[decode_rc(w)])>>)
            /\ Advance
            /\ UNCHANGED <<reg, seg_zero, seg_zero_len, status, stdin, stdout>>
       ELSE Fatal

\* mutant of ExecOUT: without the assert, putchar writes the low byte
ExecOUT_no_assert(w) ==
    /\ Fetching /\ decode_opcode(w) = OUT
    /\ Len(stdout) < MaxOut
    /\ stdout' = Append(stdout, BitsOf(reg[decode_rc(w)], 0, 8))
    /\ Advance
    /\ UNCHANGED <<reg, segments, free, heap, seg_zero, seg_zero_len, status, stdin, stored, events>>

\* output: assert(rc_val < 256), then putchar
ExecOUT(w) ==
    /\ Fetching /\ decode_opcode(w) = OUT
    /\ IF ULtN(reg[decode_rc(w)], 256)
       THEN /\ Len(stdout) < MaxOut
            /\ stdout' = Append(stdout, U(reg[decode_rc(w)]))
            /\ Advance
            /\ UNCHANGED <<reg, segments, free, heap, seg_zero, seg_zero_len, status, stdin, stored, events>>
       ELSE Fatal

ExecIN(w) ==
    /\ Fetching /\ decode_opcode(w) = OP_IN
    /\ reg' = input(reg, stdin, decode_ra(w), decode_rb(w), decode_rc(w))
    /\ stdin' = IF stdin = <<>> THEN stdin ELSE Tail(stdin)
    /\ Advance
    /\ UNCHANGED <<segments, free, heap, seg_zero, seg_zero_len, status, stdout, stored, events>>

\* mutant of ExecLOADP: an id that is not mapped is taken like r[B] = 0
ExecLOADP_ignores_unmapped(w) ==
    /\ Fetching /\ decode_opcode(w) = LOADP
    /\ IF load_program_ok(reg, mem, decode_rb(w))
       THEN LET res == load_program(reg, mem, decode_ra(w), decode_rb(w), decode_rc(w))
            IN  /\ segments' = res.segments
                /\ heap' = res.heap
                /\ prog_counter' = ToInt(res.ret)
                /\ seg_zero' = Seq_get(res.segments, 0)
                /\ seg_zero_len' = Len(res.heap[Seq_get(res.segments, 0)].words)
                /\ steps' = steps + 1
                /\ last_word' = word
                /\ history' = Record
                /\ stored' = IF reg[decode_rb(w)] = Zero THEN stored ELSE {t \in stored : t[1] # 0}
                /\ UNCHANGED <<reg, free, status, stdin, stdout, events, st_size>>
       ELSE /\ prog_counter' = ToInt(reg[decode_rc(w)])
            /\ steps' = steps + 1
            /\ last_word' = word
            /\ history' = Record
            /\ UNCHANGED <<reg, segments, free, heap, seg_zero, seg_zero_len, status, stdin,
                           stdout, stored, events, st_size>>

\* mutant of ExecLOADP: the cached length of segment 0 is not read again
ExecLOADP_stale_length(w) ==
    /\ Fetching /\ decode_opcode(w) = LOADP
    /\ IF load_program_ok(reg, mem, decode_rb(w))
       THEN LET res == load_program(reg, mem, decode_ra(w), decode_rb(w), decode_rc(w))
            IN  /\ segments' = res.segments
                /\ heap' = res.heap
                /\ prog_counter' = ToInt(res.ret)
                /\ seg_zero' = Seq_get(res.segments, 0)
                /\ seg_zero_len' = seg_zero_len
                /\ steps' = steps + 1
                /\ last_word' = word
                /\ history' = Record
                /\ stored' = IF reg[decode_rb(w)] = Zero THEN stored ELSE {t \in stored : t[1] # 0}
                /\ UNCHANGED <<reg, free, status, stdin, stdout, events, st_size>>
       ELSE Fatal

\* load program: the returned uint32_t is assigned to the int prog_counter, and the
\* cached pointer and length of segment 0 are read again
ExecLOADP(w) ==
    /\ Fetching /\ decode_opcode(w) = LOADP
    /\ IF load_program_ok(reg, mem, decode_rb(w))
       THEN LET res == load_program(reg, mem, decode_ra(w), decode_rb(w), decode_rc(w))
            IN  /\ segments' = res.segments
                /\ heap' = res.heap
                /\ prog_counter' = ToInt(res.ret)
                /\ seg_zero' = Seq_get(res.segments, 0)
                /\ seg_zero_len' = Len(res.heap[Seq_get(res.segments, 0)].words)
                /\ steps' = steps + 1
                /\ last_word' = word
                /\ history' = Record
                /\ stored' = IF reg[decode_rb(w)] = Zero THEN stored ELSE {t \in stored : t[1] # 0}
                /\ UNCHANGED <<reg, free, status, stdin, stdout, events, st_size>>
       ELSE Fatal

ExecLV(w) ==
    /\ Fetching /\ decode_opcode(w) = LV
    /\ RegisterStep(load_value(reg, decode_lv_ra(w), decode_lv_value(w)))

\* mutant of ExecInvalid: the switch falls through to its default and nothing happens
ExecInvalid_no_assert(w) == Fetching /\ decode_opcode(w) >= 14 /\ RegisterStep(reg)

\* opcodes 14 and 15: assert(op >= 0 && op < 14) in instruction_call
ExecInvalid(w) == Fetching /\ decode_opcode(w) >= 14 /\ Fatal

\* the loop test holds for a negative prog_counter: UArray_at is a checked runtime error
FetchFault ==
    /\ status = "running"
    /\ prog_counter < seg_zero_len
    /\ prog_counter < 0
    /\ status' = "aborted"
    /\ UNCHANGED <<reg, segments, free, heap, prog_counter, seg_zero, seg_zero_len,
                   stdin, stdout, steps, last_word, stored, history, events, st_size>>

\* the loop test fails: um_execute returns, main frees the machine and returns success
RunOff ==
    /\ status = "running"
    /\ ~(prog_counter < seg_zero_len)
    /\ Teardown("finished")
    /\ UNCHANGED <<reg, prog_counter, seg_zero, seg_zero_len, stdin, stdout, steps, last_word,
                   history, events, st_size>>

Next ==
    \/ ExecCMOV(word) \/ ExecSLOAD(word) \/ ExecSSTORE(word) \/ ExecADD(word)
    \/ ExecMUL(word) \/ ExecDIV(word) \/ ExecNAND(word) \/ ExecHALT(word)
    \/ ExecMAP(word) \/ ExecUNMAP(word) \/ ExecOUT(word) \/ ExecIN(word)
    \/ ExecLOADP(word) \/ ExecLV(word) \/ ExecInvalid(word)
    \/ FetchFault \/ RunOff

Spec == Init /\ [][Next]_vars

(* ------------------------- notions of the claims ----------------------- *)

\* the ids of the segment table
Ids == 0 .. (Len(segments) - 1)

\* id i of the table is mapped
Mapped(i) == segments[i + 1] # NULL

\* the 32-bit value w names a mapped id
MappedW(w) == ULtN(w, Len(segments)) /\ Mapped(U(w))

\* the words of the mapped segment i
Seg(i) == heap[segments[i + 1]].words

\* how often id i occurs on the free list
FreeCount(i) == Cardinality({k \in 1 .. Len(free) : free[k] = i})

InFree(i) == FreeCount(i) > 0

\* the machine exists: it has been neither halted nor finished
Alive == status \in {"running", "aborted"}

\* the step executes an instruction with the given opcode
Executes(op) == Fetching /\ opcode = op /\ steps' = steps + 1

\* the instruction executed last had the given opcode
LastOp(op) == last_word # <<>> /\ decode_opcode(last_word) = op

(* ------------------------------- claims -------------------------------- *)

\* C1: after construction and after every instruction, every id of the segment
\* table is either mapped or on the free list, never both and never neither.
C1_MappedXorFree == \A i \in Ids : Mapped(i) <=> ~InFree(i)

\* C1 witness: a machine still running in which an id has been unmapped (it is at
\* the high end of the free list) while a higher id is still mapped.
C1_Witness ==
    /\ status = "running"
    /\ LastOp(UNMAP)
    /\ Len(free) > 0
    /\ \E i \in Ids : i > free[Len(free)] /\ Mapped(i)

\* C2: segment 0 is mapped in every state of a machine that has not terminated:
\* slot 0 of the table holds a live array and id 0 is not on the free list.
C2_SegmentZeroMapped ==
    Alive => /\ Len(segments) > 0
             /\ Mapped(0)
             /\ heap[segments[1]].live
             /\ ~InFree(0)

\* C2 witness: a running machine that has executed an UNMAP and whose segment 0 is
\* no longer the array allocated at construction (a LOADP replaced it).
C2_Witness ==
    /\ status = "running"
    /\ Seq_get(segments, 0) # 1
    /\ \E i \in Ids : InFree(i) /\ i < free[1]

\* C3 (as claimed): after every instruction the program counter, as the 32-bit
\* value it holds, is at most length(segment 0), also after LOADP for every r[C].
C3_PcWithinSegmentZero ==
    status = "running" => ~ULt(FromNat(Len(Seg(0))), FromInt(prog_counter))

\* the smallest element of a non-empty set of numbers
Min(S) == CHOOSE x \in S : \A y \in S : x <= y

\* the ids of the table that are not mapped
Unmapped == {i \in Ids : ~Mapped(i)}

\* C4 (as claimed): MAP returns the smallest unmapped id of the table whenever one
\* exists, and only otherwise extends the table by one slot and returns its index.
C4_SmallestUnmappedId ==
    [][Executes(MAP) /\ status' = "running" =>
         IF Unmapped # {}
         THEN reg'[rb] = FromNat(Min(Unmapped)) /\ Len(segments') = Len(segments)
         ELSE reg'[rb] = FromNat(Len(segments)) /\ Len(segments') = Len(segments) + 1]_vars

\* C4 (amended): whenever an unmapped id exists the free list is not empty and MAP
\* returns the id at its low end, leaving the table's length alone; only when no
\* unmapped id exists does MAP extend the table by one slot and return its index.
C4_HeadOfFreeList ==
    [][Executes(MAP) /\ status' = "running" =>
         IF Unmapped # {}
         THEN /\ Len(free) > 0
              /\ reg'[rb] = FromNat(Head(free))
              /\ Len(segments') = Len(segments)
              /\ free' = Tail(free)
         ELSE /\ reg'[rb] = FromNat(Len(segments))
              /\ Len(segments') = Len(segments) + 1
              /\ free' = free]_vars

\* C4 witness: a MAP has returned an id although a smaller id is unmapped.
C4_Witness ==
    /\ status = "running"
    /\ LastOp(MAP)
    /\ \E i \in Unmapped : i < U(reg[decode_rb(last_word)])

\* C5: after MAP with r[C] = n, r[B] holds an id that was not mapped before and is
\* not 0; it is now mapped to a segment of n zero words, and every other mapped
\* segment is still mapped with the words it had.
C5_MapPostcondition ==
    [][Executes(MAP) /\ status' = "running" =>
         LET id == reg'[rb]
             n  == U(reg[rc])
         IN  /\ IsSmall(id)
             /\ id # Zero
             /\ ~MappedW(id)
             /\ U(id) < Len(segments')
             /\ segments'[U(id) + 1] # NULL
             /\ heap'[segments'[U(id) + 1]].live
             /\ heap'[segments'[U(id) + 1]].words = [k \in 1 .. n |-> Zero]
             /\ \A j \in Ids : (Mapped(j) /\ j # U(id)) =>
                    /\ segments'[j + 1] # NULL
                    /\ heap'[segments'[j + 1]].live
                    /\ heap'[segments'[j + 1]].words = Seg(j)]_vars

\* C5 witness: a MAP of a non-empty segment has returned while another segment
\* besides segment 0 is mapped and holds a word that is not zero.
C5_Witness ==
    /\ status = "running"
    /\ LastOp(MAP)
    /\ LET id == U(reg[decode_rb(last_word)])
       IN  /\ Len(Seg(id)) > 0
           /\ \E j \in Ids : j # 0 /\ j # id /\ Mapped(j) /\ \E k \in 1 .. Len(Seg(j)) : Seg(j)[k] # Zero

\* C6: a SLOAD of (seg, off) yields the value of the last SSTORE to (seg, off), as
\* long as since that SSTORE seg was not unmapped and (for seg = 0) no LOADP with
\* r[B] # 0 was executed, whatever other instructions ran in between: the load
\* succeeds and r[A] receives that value.
C6_StoreThenLoad ==
    [][Executes(SLOAD) =>
         \A t \in stored :
             (reg[rb] = FromNat(t[1]) /\ reg[rc] = FromNat(t[2])) =>
                 status' = "running" /\ reg'[ra] = t[3]]_vars

\* C6 witness: a SLOAD has returned a value stored earlier at an offset other than 0
\* in a segment other than 0, after another segment was unmapped in between.
C6_Witness ==
    /\ status = "running"
    /\ LastOp(SLOAD)
    /\ \E t \in stored :
           /\ t[1] # 0 /\ t[2] # 0 /\ t[3] # Zero
           /\ reg[decode_rb(last_word)] = FromNat(t[1])
           /\ reg[decode_rc(last_word)] = FromNat(t[2])
           /\ reg[decode_ra(last_word)] = t[3]
    /\ \E i \in Ids : InFree(i) /\ i < free[1]

\* C7: after LOADP with r[B] = s # 0 naming a mapped segment and r[C] = k, segment 0
\* has the words segment s had, segment s is still mapped with the same words, the
\* program counter is k, and when k < length(s) the word fetched next is the one
\* that was at M[s, k].
C7_LoadProgram ==
    [][Executes(LOADP) /\ reg[rb] # Zero /\ MappedW(reg[rb]) =>
         LET s == U(reg[rb])
             k == reg[rc]
         IN  /\ status' = "running"
             /\ segments'[1] # NULL
             /\ heap'[segments'[1]].live
             /\ heap'[segments'[1]].words = Seg(s)
             /\ segments'[s + 1] # NULL
             /\ heap'[segments'[s + 1]].live
             /\ heap'[segments'[s + 1]].words = Seg(s)
             /\ FromInt(prog_counter') = k
             /\ ULtN(k, Len(Seg(s))) =>
                    /\ prog_counter' = U(k)
                    /\ prog_counter' < seg_zero_len'
                    /\ word' = Seg(s)[U(k) + 1]]_vars

\* C7 witness: a LOADP from a segment other than 0 has returned and the word to be
\* fetched next is a word that was stored into that segment.
C7_Witness ==
    /\ status = "running"
    /\ LastOp(LOADP)
    /\ reg[decode_rb(last_word)] # Zero
    /\ prog_counter >= 0 /\ prog_counter < seg_zero_len
    /\ \E t \in stored : t[1] = U(reg[decode_rb(last_word)]) /\ t[2] = prog_counter /\ t[3] = word

\* no two mapped ids hold the same array, and every mapped id holds a live one
NoSharedStorage ==
    \A i \in Ids : Mapped(i) =>
        /\ heap[segments[i + 1]].live
        /\ \A j \in Ids : (Mapped(j) /\ j # i) => segments[j + 1] # segments[i + 1]

\* C8: no two distinct mapped ids ever share storage, and an SSTORE into segment i
\* changes no word of any mapped segment j # i, also after a LOADP from segment s
\* for segment 0 and segment s.
C8_NoAliasing ==
    /\ [](Alive => NoSharedStorage)
    /\ [][Executes(SSTORE) /\ status' = "running" =>
            \A j \in Ids : (Mapped(j) /\ reg[ra] # FromNat(j)) =>
                /\ segments'[j + 1] # NULL
                /\ heap'[segments'[j + 1]].words = Seg(j)]_vars

\* C8 witness: after a LOADP from a segment other than 0, an SSTORE into segment 0
\* or into that segment has made the two segments differ.
C8_Witness ==
    /\ status = "running"
    /\ LastOp(SSTORE)
    /\ Seq_get(segments, 0) # 1
    /\ \E j \in Ids : j # 0 /\ Mapped(j) /\ Len(Seg(j)) = Len(Seg(0)) /\ Seg(j) # Seg(0)
                      /\ reg[decode_ra(last_word)] \in {Zero, FromNat(j)}

\* C9: UNMAP with r[C] = 0 or r[C] not naming a mapped id aborts and changes
\* nothing; UNMAP of a mapped id s # 0 leaves s unmapped and exactly once on the
\* free list, and every other segment and every register as it was.
C9_Unmap ==
    [][Executes(UNMAP) =>
         IF reg[rc] = Zero \/ ~MappedW(reg[rc])
         THEN /\ status' = "aborted"
              /\ UNCHANGED <<reg, segments, free, heap>>
         ELSE LET s == U(reg[rc])
              IN  /\ status' = "running"
                  /\ segments'[s + 1] = NULL
                  /\ Cardinality({k \in 1 .. Len(free') : free'[k] = s}) = 1
                  /\ Len(free') = Len(free) + 1
                  /\ Len(segments') = Len(segments)
                  /\ \A j \in Ids : j # s =>
                         /\ segments'[j + 1] = segments[j + 1]
                         /\ Mapped(j) => heap'[segments'[j + 1]] = heap[segments[j + 1]]
                  /\ reg' = reg]_vars

\* C9 witness: an UNMAP of a mapped id has returned while another segment besides
\* segment 0 stays mapped.
C9_Witness ==
    /\ status = "running"
    /\ LastOp(UNMAP)
    /\ InFree(U(reg[decode_rc(last_word)]))
    /\ \E j \in Ids : j # 0 /\ Mapped(j)

\* C10: SLOAD and SSTORE abort whenever the segment id is not mapped or the offset
\* is not below the segment's length, as for every access to a segment mapped with
\* length 0, and the failing instruction changes no word and no register.
C10_AccessFaults ==
    /\ [][Executes(SLOAD) /\ (~MappedW(reg[rb]) \/ ~ULtN(reg[rc], Len(Seg(U(reg[rb]))))) =>
            status' = "aborted" /\ UNCHANGED <<reg, segments, free, heap>>]_vars
    /\ [][Executes(SSTORE) /\ (~MappedW(reg[ra]) \/ ~ULtN(reg[rb], Len(Seg(U(reg[ra]))))) =>
            status' = "aborted" /\ UNCHANGED <<reg, segments, free, heap>>]_vars

\* C10 witness: an SSTORE into a mapped segment of length 0 has aborted.
C10_Witness ==
    /\ status = "aborted"
    /\ LastOp(SSTORE)
    /\ reg[decode_ra(last_word)] # Zero
    /\ MappedW(reg[decode_ra(last_word)])
    /\ Len(Seg(U(reg[decode_ra(last_word)]))) = 0

\* C11 (as claimed): whenever the program counter, as the 32-bit value it holds, is
\* not below length(segment 0) at the top of the fetch loop, the machine terminates
\* normally without fetching a word, also right after a LOADP with r[C] >= 2^31.
C11_ExhaustedTerminatesNormally ==
    [][status = "running" /\ ~ULtN(FromInt(prog_counter), Len(Seg(0))) =>
         status' = "finished" /\ steps' = steps]_vars

\* C12 (as claimed): once the machine has stopped, by HALT, by a fatal exit or by
\* running off the end of segment 0, no array is left allocated and the segment
\* table and the free list hold no entry.
C12_EverythingReleased ==
    status \in {"halted", "finished", "aborted"} =>
        /\ \A a \in Addr : ~heap[a].live
        /\ segments = <<>>
        /\ free = <<>>

\* the set of ids on a free list
SetOf(seq) == {seq[k] : k \in 1 .. Len(seq)}

\* the step is an UNMAP of the id returned by a MAP that was the instruction before
RoundTrip ==
    /\ Executes(UNMAP)
    /\ history # <<>>
    /\ decode_opcode(history[1].word) = MAP
    /\ reg[rc] = reg[decode_rb(history[1].word)]

\* C13 (as claimed): MAP immediately followed by UNMAP of the returned id leaves the
\* set of ids on the free list equal to what it was before the MAP, also when the
\* free list was empty before the MAP.
C13_RoundTripRestoresFreeSet ==
    [][RoundTrip => status' = "running" /\ SetOf(free') = SetOf(history[1].free)]_vars

\* C13 (amended): the set of ids on the free list is restored when the free list
\* was not empty before the MAP; when it was empty the MAP extended the table, and
\* after the UNMAP the free list holds exactly the id of the new last slot.
C13_RoundTripFreeSet ==
    [][RoundTrip =>
         /\ status' = "running"
         /\ IF history[1].free # <<>>
            THEN SetOf(free') = SetOf(history[1].free)
            ELSE /\ SetOf(free') = {U(reg[rc])}
                 /\ U(reg[rc]) = Len(segments) - 1
                 /\ Len(segments) > HINT]_vars

\* C13 witness: a MAP executed with an empty free list was followed at once by the
\* UNMAP of the id it returned.
C13_Witness ==
    /\ status = "running"
    /\ Len(history) = 2
    /\ decode_opcode(history[2].word) = MAP
    /\ history[2].free = <<>>
    /\ decode_opcode(history[1].word) = UNMAP
    /\ reg[decode_rc(history[1].word)] = reg[decode_rb(history[2].word)]
    /\ InFree(U(reg[decode_rc(history[1].word)]))

\* C14: IN sets r[C] to 0xFFFFFFFF when the input is at EOF and to the byte read, a
\* value in 0..255, otherwise; an IN not at EOF consumes exactly the first byte not
\* yet read, and no other register, no segment and no output changes.
C14_Input ==
    [][Executes(OP_IN) =>
         /\ status' = "running"
         /\ IF stdin = <<>>
            THEN reg'[rc] = <<65535, 65535>> /\ stdin' = <<>>
            ELSE /\ Head(stdin) \in 0 .. 255
                 /\ reg'[rc] = <<0, Head(stdin)>>
                 /\ stdin' = Tail(stdin)
         /\ \A i \in 0 .. 7 : i # rc => reg'[i] = reg[i]
         /\ UNCHANGED <<segments, free, heap, stdout>>]_vars

\* C14 witness: three INs on an input of two bytes have put the bytes, in order,
\* and then the EOF value into three registers.
C14_Witness ==
    /\ status = "running"
    /\ LastOp(OP_IN)
    /\ stdin = <<>>
    /\ reg[1] = <<0, 90>> /\ reg[2] = <<0, 255>> /\ reg[3] = <<65535, 65535>>

\* C15: OUT with r[C] > 255 aborts and writes nothing; OUT with r[C] <= 255 appends
\* the one byte r[C] to the output; no other instruction changes the output, so the
\* output is the sequence of the r[C] of the OUTs that succeeded, in program order.
C15_Output ==
    /\ [][Executes(OUT) =>
            IF ULt(<<0, 255>>, reg[rc])
            THEN status' = "aborted" /\ stdout' = stdout
            ELSE status' = "running" /\ stdout' = Append(stdout, reg[rc][2])]_vars
    /\ [][stdout' # stdout => Executes(OUT)]_vars

\* C15 witness: after a byte was written, an OUT of the value 256 has aborted and
\* the output still holds that one byte.
C15_Witness ==
    /\ status = "aborted"
    /\ LastOp(OUT)
    /\ reg[decode_rc(last_word)] = <<0, 256>>
    /\ stdout = <<65>>

\* words with the top four bits of w and other values of the remaining 28 bits
SameOpcode(w) ==
    {<<(w[1] \div 4096) * 4096 + h, l>> : h \in {0, 1, 291, 2048, 4095}, l \in {0, 1, 511, 17767, 65535}}

\* C16: a fetched word whose top four bits encode 14 or 15 aborts the machine,
\* whatever the remaining 28 bits are, and no register, segment or output changes.
C16_UndefinedOpcode ==
    [][Fetching /\ word[1] \div 4096 \in {14, 15} /\ steps' = steps + 1 =>
         /\ status' = "aborted"
         /\ UNCHANGED <<reg, segments, free, heap, stdout>>
         /\ \A v \in SameOpcode(word) : ExecInvalid(v)]_vars

\* C16 witness: the machine has aborted on a word with opcode 15 whose other bits
\* are not all zero.
C16_Witness ==
    /\ status = "aborted"
    /\ last_word # <<>>
    /\ last_word[1] \div 4096 = 15
    /\ last_word[1] % 4096 # 0
    /\ last_word[2] # 0

\* the words that differ from w at most in bits 27-9
Variants(w) ==
    {<<(w[1] \div 4096) * 4096 + j[1], j[2] * 512 + (w[2] % 512)>> :
        j \in {<<0, 0>>, <<4095, 127>>, <<2730, 85>>, <<1365, 42>>}}

\* the step is the execution of the standard-format word w in the current state
StepOn(w) ==
    \/ ExecCMOV(w) \/ ExecSLOAD(w) \/ ExecSSTORE(w) \/ ExecADD(w) \/ ExecMUL(w)
    \/ ExecDIV(w) \/ ExecNAND(w) \/ ExecHALT(w) \/ ExecMAP(w) \/ ExecUNMAP(w)
    \/ ExecOUT(w) \/ ExecIN(w) \/ ExecLOADP(w)

\* C17: for a word with opcode 0..12 the decoder takes the opcode from bits 31-28, A
\* from bits 8-6, B from bits 5-3 and C from bits 2-0, and the step the machine
\* takes is the step of every word that differs from it only in bits 27-9.
C17_StandardDecode ==
    /\ [](Fetching /\ word[1] \div 4096 <= 12 =>
            \A v \in Variants(word) :
                /\ decode_opcode(v) = word[1] \div 4096
                /\ decode_ra(v) = (word[2] \div 64) % 8
                /\ decode_rb(v) = (word[2] \div 8) % 8
                /\ decode_rc(v) = word[2] % 8)
    /\ [][Fetching /\ word[1] \div 4096 <= 12 /\ steps' = steps + 1 =>
            \A v \in Variants(word) : StepOn(v)]_vars

\* C17 witness: a SLOAD whose word has bits set among bits 27-9 has loaded a value
\* that is not zero into a register other than r0.
C17_Witness ==
    /\ status = "running"
    /\ LastOp(SLOAD)
    /\ last_word[1] % 4096 # 0
    /\ last_word[2] \div 512 # 0
    /\ decode_ra(last_word) # 0
    /\ reg[decode_ra(last_word)] # Zero

\* C18: a word with opcode 13 writes bits 24-0 of the word, zero-extended, to the
\* register numbered by bits 27-25; the value is below 2^25, and nothing else
\* changes but the program counter, which is incremented.
C18_LoadValue ==
    [][Fetching /\ word[1] \div 4096 = 13 /\ steps' = steps + 1 =>
         LET a == (word[1] \div 512) % 8
             v == <<word[1] % 512, word[2]>>
         IN  /\ v[1] < 512
             /\ reg' = [reg EXCEPT ![a] = v]
             /\ prog_counter' = prog_counter + 1
             /\ status' = "running"
             /\ UNCHANGED <<segments, free, heap, seg_zero, seg_zero_len, stdin, stdout>>]_vars

\* C18 witness: a load value has written 2^25 - 1 to register 7.
C18_Witness ==
    /\ status = "running"
    /\ LastOp(LV)
    /\ last_word[1] \div 512 = 13 * 8 + 7
    /\ reg[7] = <<511, 65535>>

\* the four bytes of a word, lowest first, and the word of four bytes
Bytes(w) == <<w[2] % 256, w[2] \div 256, w[1] % 256, w[1] \div 256>>
FromBytes(s) == <<s[4] * 256 + s[3], s[2] * 256 + s[1]>>

\* bytes i .. 4 of the sum of two words given as bytes, the carry out of byte 4 dropped
RECURSIVE SumBytes(_, _, _, _)
SumBytes(x, y, i, carry) ==
    IF i > 4 THEN <<>>
    ELSE <<(x[i] + y[i] + carry) % 256>> \o SumBytes(x, y, i + 1, (x[i] + y[i] + carry) \div 256)

\* (a + b) mod 2^32 and (a - b) mod 2^32
SumMod(a, b) == FromBytes(SumBytes(Bytes(a), Bytes(b), 1, 0))
DiffMod(a, b) == SumMod(a, SumMod(<<65535 - b[1], 65535 - b[2]>>, <<0, 1>>))

\* the sum of the products of the bytes of x and y that weigh 256^k
Column(x, y, k) ==
    LET t(i) == IF k - i \in 0 .. 3 THEN x[i + 1] * y[k - i + 1] ELSE 0
    IN  t(0) + t(1) + t(2) + t(3)

\* bytes k .. 7 of the full 64-bit product of two words given as bytes
RECURSIVE ProductBytes(_, _, _, _)
ProductBytes(x, y, k, carry) ==
    IF k > 7 THEN <<>>
    ELSE <<(Column(x, y, k) + carry) % 256>>
         \o ProductBytes(x, y, k + 1, (Column(x, y, k) + carry) \div 256)

\* q is the unsigned floor quotient of b by c: q * c <= b < q * c + c
IsQuotient(q, b, c) ==
    LET p == ProductBytes(Bytes(q), Bytes(c), 0, 0)
        low == FromBytes(SubSeq(p, 1, 4))
    IN  /\ SubSeq(p, 5, 8) = <<0, 0, 0, 0>>
        /\ ~ULt(b, low)
        /\ ULt(DiffMod(b, low), c)

\* C19: DIV with r[C] = 0 aborts and writes no register; with r[C] # 0 it sets r[A]
\* to the unsigned floor quotient of r[B] by r[C], also when A, B and C are the
\* same register, and changes no other register.
C19_Divide ==
    [][Executes(DIV) =>
         IF reg[rc] = Zero
         THEN status' = "aborted" /\ reg' = reg
         ELSE /\ status' = "running"
              /\ IsQuotient(reg'[ra], reg[rb], reg[rc])
              /\ \A i \in 0 .. 7 : i # ra => reg'[i] = reg[i]
              /\ (IsSmall(reg[rb]) /\ IsSmall(reg[rc])) =>
                     (IsSmall(reg'[ra]) /\ U(reg'[ra]) = U(reg[rb]) \div U(reg[rc]))]_vars

\* C19 witness: 0xFFFFFFFF was divided by 2, and a DIV with one register for A, B
\* and C has then left 1 in that register.
C19_Witness ==
    /\ status = "running"
    /\ LastOp(DIV)
    /\ decode_ra(last_word) = decode_rb(last_word)
    /\ decode_rb(last_word) = decode_rc(last_word)
    /\ reg[decode_ra(last_word)] = <<0, 1>>
    /\ reg[3] = <<32767, 65535>>

\* (a * b) mod 2^32
ProductMod(a, b) == FromBytes(SubSeq(ProductBytes(Bytes(a), Bytes(b), 0, 0), 1, 4))

\* C20: ADD sets r[A] to (r[B] + r[C]) mod 2^32 and MUL sets r[A] to
\* (r[B] * r[C]) mod 2^32, and every register holds a value below 2^32 at all times.
C20_AddMulWrap ==
    /\ [](\A i \in 0 .. 7 : reg[i] \in (0 .. 65535) \X (0 .. 65535))
    /\ [][Executes(ADD) =>
            status' = "running" /\ reg' = [reg EXCEPT ![ra] = SumMod(reg[rb], reg[rc])]]_vars
    /\ [][Executes(MUL) =>
            status' = "running" /\ reg' = [reg EXCEPT ![ra] = ProductMod(reg[rb], reg[rc])]]_vars

\* C20 witness: the sum and the product of 0xFFFFFFFF with itself have been
\* computed: 0xFFFFFFFE and 1.
C20_Witness ==
    /\ status = "running"
    /\ LastOp(MUL)
    /\ reg[decode_rb(last_word)] = <<65535, 65535>>
    /\ reg[decode_rc(last_word)] = <<65535, 65535>>
    /\ reg[decode_ra(last_word)] = <<0, 1>>
    /\ \E i \in 0 .. 7 : reg[i] = <<65535, 65534>>

\* C21 (as claimed): a program file whose size is not a multiple of 4 is rejected
\* before any instruction is executed: no instruction of the file runs and the
\* process does not end in success.
C21_RaggedFileRejected ==
    st_size % CHAR_PER_WORD # 0 => steps = 0 /\ status \notin {"halted", "finished"}

\* C22: LOADP with r[B] = 0 and r[C] = k changes nothing but the program counter:
\* segment 0 keeps its storage, length and contents, every other segment, every
\* register, the table and the free list are unchanged, and the program counter
\* holds k.
C22_LoadProgramZero ==
    [][Executes(LOADP) /\ reg[rb] = Zero =>
         /\ status' = "running"
         /\ UNCHANGED <<reg, segments, free, heap, seg_zero, seg_zero_len, stdin, stdout>>
         /\ FromInt(prog_counter') = reg[rc]
         /\ IsSmall(reg[rc]) => prog_counter' = U(reg[rc])]_vars

\* C22 witness: a LOADP with r[B] = 0 has jumped backwards while a segment other
\* than segment 0 is mapped and an id has been unmapped.
C22_Witness ==
    /\ status = "running"
    /\ LastOp(LOADP)
    /\ reg[decode_rb(last_word)] = Zero
    /\ IsSmall(reg[decode_rc(last_word)])
    /\ prog_counter = U(reg[decode_rc(last_word)])
    /\ prog_counter + 1 < steps
    /\ \E j \in Ids : j # 0 /\ Mapped(j)
    /\ \E e \in SetOf(events) : e[1] = UNMAP

\* C23: an instruction other than LOADP that completes without halting or a fatal
\* condition leaves the program counter at its value at fetch plus 1, and only a
\* LOADP sets the program counter to anything but that.
C23_Increment ==
    /\ [][Fetching /\ word[1] \div 4096 # 12 /\ steps' = steps + 1 /\ status' = "running" =>
            prog_counter' = prog_counter + 1]_vars
    /\ [][prog_counter' # prog_counter /\ prog_counter' # prog_counter + 1 =>
            Executes(LOADP)]_vars

\* C23 witness: after a LOADP has jumped backwards, another instruction has been
\* executed and the program counter is 1.
C23_Witness ==
    /\ status = "running"
    /\ Len(history) = 2
    /\ decode_opcode(history[2].word) = LOADP
    /\ decode_opcode(history[1].word) # LOADP
    /\ steps > 2
    /\ prog_counter = 1

\* the free list as a first-in-first-out queue would have it after the first n
\* events: 1 .. HINT-1 at the start, the oldest id taken by a MAP unless the queue
\* is empty, the id added at the end by an UNMAP
RECURSIVE Queue(_)
Queue(n) ==
    IF n = 0 THEN [i \in 1 .. (HINT - 1) |-> i]
    ELSE LET q == Queue(n - 1)
         IN  IF events[n][1] = UNMAP THEN Append(q, events[n][2])
             ELSE IF q = <<>> THEN q ELSE Tail(q)

\* C24: ids are reused in first-in-first-out order: every MAP that finds an id on
\* the free list returns the one that has been on it longest; with no UNMAP so far
\* the program's first nine MAPs return 1, 2, ..., 9 in that order.
C24_FifoReuse ==
    Alive =>
        /\ \A n \in 1 .. Len(events) :
               (events[n][1] = MAP /\ Queue(n - 1) # <<>>) => events[n][2] = Head(Queue(n - 1))
        /\ free = Queue(Len(events))
        /\ (\A n \in 1 .. Len(events) : events[n][1] = MAP) =>
               \A n \in 1 .. Len(events) : n <= HINT - 1 => events[n] = <<MAP, n>>

\* C24 witness: after nine MAPs the ids 3 and 1 were unmapped in that order, and
\* the next two MAPs have returned 3 and then 1.
C24_Witness ==
    /\ status = "running"
    /\ Len(events) = 13
    /\ events[10] = <<UNMAP, 3>> /\ events[11] = <<UNMAP, 1>>
    /\ events[12] = <<MAP, 3>> /\ events[13] = <<MAP, 1>>
    /\ reg[5] = <<0, 3>> /\ reg[6] = <<0, 1>>

\* the number of segments mapped after the first n events, segment 0 included
MappedAfter(n) ==
    1 + Cardinality({k \in 1 .. n : events[k][1] = MAP})
      - Cardinality({k \in 1 .. n : events[k][1] = UNMAP})

\* the largest number of segments that were mapped at the same time so far
Peak == CHOOSE x \in {MappedAfter(n) : n \in 0 .. Len(events)} :
            \A n \in 0 .. Len(events) : MappedAfter(n) <= x

\* C25: the segment table never shrinks and grows, by one slot, only when a MAP
\* finds the free list empty; its length is the larger of 10 and the largest
\* number of segments mapped at the same time so far.
C25_TableLength ==
    /\ [](Alive => Len(segments) = IF Peak > 10 THEN Peak ELSE 10)
    /\ [][status' \in {"running", "aborted"} => Len(segments') >= Len(segments)]_vars
    /\ [][Len(segments') > Len(segments) =>
            Executes(MAP) /\ free = <<>> /\ Len(segments') = Len(segments) + 1]_vars

\* C25 witness: the table has grown beyond 10 slots and a segment has been
\* unmapped since, so fewer segments are mapped than the table has slots.
C25_Witness ==
    /\ status = "running"
    /\ Len(segments) > 10
    /\ MappedAfter(Len(events)) < Len(segments)
    /\ \E i \in Ids : ~Mapped(i)

\* C26: LOADP with r[B] # 0 naming an id that is not mapped (unmapped, never
\* mapped or outside the table) aborts, and segment 0 is then still mapped with
\* the contents it had; nothing else has changed either.
C26_LoadProgramUnmapped ==
    [][Executes(LOADP) /\ reg[rb] # Zero /\ ~MappedW(reg[rb]) =>
         /\ status' = "aborted"
         /\ segments'[1] # NULL
         /\ heap'[segments'[1]].live
         /\ heap'[segments'[1]].words = Seg(0)
         /\ UNCHANGED <<reg, segments, free, heap>>]_vars

\* C26 witness: a LOADP naming an id that the program had mapped and unmapped has
\* aborted, and segment 0 still holds the program.
C26_Witness ==
    /\ status = "aborted"
    /\ LastOp(LOADP)
    /\ reg[decode_rb(last_word)] # Zero
    /\ IsSmall(reg[decode_rb(last_word)])
    /\ <<UNMAP, U(reg[decode_rb(last_word)])>> \in SetOf(events)
    /\ ~MappedW(reg[decode_rb(last_word)])
    /\ Mapped(0) /\ heap[segments[1]].live /\ Len(Seg(0)) = st_size \div 4

\* at most one register differs after the step
OneRegister == \E i \in 0 .. 7 : \A j \in 0 .. 7 : j # i => reg'[j] = reg[j]

\* every segment that is mapped after the step has the storage and the words it had
MappedUntouched ==
    \A j \in 0 .. (Len(segments') - 1) :
        segments'[j + 1] # NULL =>
            /\ j < Len(segments)
            /\ segments'[j + 1] = segments[j + 1]
            /\ heap'[segments'[j + 1]] = heap[segments[j + 1]]

\* C27: each instruction changes only what its semantics name. CMOV, SLOAD, ADD,
\* MUL, DIV, NAND, LV and IN change at most one register and no segment; MAP changes
\* only register B, the slot of the new segment and the free list; SSTORE changes
\* the one word it names and no register; UNMAP and OUT change no register and no
\* word of a segment that stays mapped; CMOV with r[C] = 0 changes nothing but the
\* program counter.
C27_Frames ==
    /\ [][(\E op \in {CMOV, SLOAD, ADD, MUL, DIV, NAND, LV, OP_IN} : Executes(op)) =>
            OneRegister /\ UNCHANGED <<segments, free, heap, stdout>>]_vars
    /\ [][Executes(MAP) =>
            IF status' = "running"
            THEN LET id == U(reg'[rb])
                 IN  /\ \A j \in 0 .. 7 : j # rb => reg'[j] = reg[j]
                     /\ \A k \in Ids : k # id => segments'[k + 1] = segments[k + 1]
                     /\ \A a \in Addr : a # segments'[id + 1] => heap'[a] = heap[a]
                     /\ UNCHANGED <<stdin, stdout>>
            ELSE UNCHANGED <<reg, segments, free, heap, stdin, stdout>>]_vars
    /\ [][Executes(SSTORE) =>
            /\ UNCHANGED <<reg, segments, free, stdin, stdout>>
            /\ IF status' = "running"
               THEN LET a == segments[U(reg[ra]) + 1]
                        k == U(reg[rb]) + 1
                    IN  /\ heap'[a].words[k] = reg[rc]
                        /\ \A x \in Addr :
                               /\ heap'[x].live = heap[x].live
                               /\ Len(heap'[x].words) = Len(heap[x].words)
                               /\ \A i \in 1 .. Len(heap[x].words) :
                                      (x # a \/ i # k) => heap'[x].words[i] = heap[x].words[i]
               ELSE heap' = heap]_vars
    /\ [][Executes(UNMAP) \/ Executes(OUT) => reg' = reg /\ MappedUntouched]_vars
    /\ [][Executes(CMOV) /\ reg[rc] = Zero =>
            /\ prog_counter' = prog_counter + 1
            /\ UNCHANGED <<reg, segments, free, heap, seg_zero, seg_zero_len, status,
                           stdin, stdout>>]_vars

\* C27 witness: a CMOV with r[C] = 0 has been executed with different values in
\* r[A] and r[B], while a segment other than segment 0 is mapped.
C27_Witness ==
    /\ status = "running"
    /\ LastOp(CMOV)
    /\ reg[decode_rc(last_word)] = Zero
    /\ reg[decode_ra(last_word)] # reg[decode_rb(last_word)]
    /\ \E j \in Ids : j # 0 /\ Mapped(j)

\* C28: the word executed at each step is the value M[0, pc] has at that moment, and
\* the run ends at the end of the segment 0 of that moment: a word stored into
\* segment 0 is the instruction executed when its offset is fetched, and after a
\* LOADP with r[B] # 0 fetches and the end-of-program test use the new segment 0.
C28_FetchCurrent ==
    /\ [](status = "running" => seg_zero = segments[1] /\ seg_zero_len = Len(Seg(0)))
    /\ [][status = "running" /\ steps' = steps + 1 =>
            /\ prog_counter >= 0 /\ prog_counter < Len(Seg(0))
            /\ last_word' = Seg(0)[prog_counter + 1]]_vars
    /\ [][status = "running" /\ status' = "finished" => ~(prog_counter < Len(Seg(0)))]_vars

\* C28 witness: after a LOADP from another segment, the word the program stored into
\* the new segment 0 at offset 1 is the instruction that has been executed.
C28_Witness ==
    /\ status = "running"
    /\ Seq_get(segments, 0) # 1
    /\ prog_counter = 2
    /\ last_word # <<>>
    /\ <<0, 1, last_word>> \in stored
    /\ \E j \in Ids : j # 0 /\ Mapped(j) /\ Seg(j) # Seg(0)

====
